---- MODULE Spec2Model ----
(***************************************************************************)
(* Model of public/server.js: an express application with one shared       *)
(* mysql2 connection, bcrypt password hashing and a multer disk upload.    *)
(* Every asynchronous boundary of a handler (await, query callback, the    *)
(* upload middleware) is one action; the connection executes its queued    *)
(* commands one at a time in the order they were issued.                   *)
(***************************************************************************)
EXTENDS Integers, Sequences, FiniteSets, TLC

\* ---- bounds ----
MaxReq == 2
MaxClock == 1

\* ---- input domains ----
Missing == <<>>
NoFile == ""
Null == <<>>
\* request bodies of POST /signup: two people claiming one email, and a body without password
SignupBodies ==
    {[firstName |-> "A", lastName |-> "B", email |-> "a@x.com", password |-> <<"secret">>],
     [firstName |-> "C", lastName |-> "D", email |-> "a@x.com", password |-> <<"other">>],
     [firstName |-> "A", lastName |-> "B", email |-> "b@x.com", password |-> Missing]}
\* request bodies of POST /login
LoginBodies ==
    {[email |-> "a@x.com", password |-> <<"secret">>],
     [email |-> "a@x.com", password |-> <<"other">>],
     [email |-> "b@x.com", password |-> <<"secret">>],
     [email |-> "a@x.com", password |-> Missing]}
\* extension of the uploaded photo's original name, or no file
Files == {NoFile, ".jpg"}
Pages == {"index.html", "signup.html", "homepage.html", "alumni-registration.html"}

VARIABLES
    db,          \* state of the shared connection: connecting / connected / failed
    listening,   \* app.listen has bound the port
    alive,       \* the node process is running
    uniqueEmail, \* whether the users table declares email UNIQUE (schema is not in the repository)
    now,         \* the last value Date.now() returned
    reqs,        \* the requests received so far, with each handler's locals and position
    dbQueue,     \* commands issued on the connection and not yet executed
    users, alumni_registration, payments,   \* the three tables
    uploads,     \* files under uploads/: filename -> request that wrote it last
    users0       \* the rows users held when the process started

vars == <<db, listening, alive, uniqueEmail, now, reqs, dbQueue,
          users, alumni_registration, payments, uploads, users0>>

tables == <<users, alumni_registration, payments>>

\* ---- bcrypt ----
\* the salt bcrypt generates is fresh for every call: the call's own number stands for it
Salt(call) == call

\* bcrypt.hash(password, 10): prefix, salt, and a digest that depends on the plaintext
Hash(password, salt) == <<"$2b$10$", salt, password[1]>>

\* bcrypt.hash / bcrypt.compare reject when the data argument is undefined
BcryptRejects(password) == password = Missing

\* bcrypt.compare(password, hash): false on mismatch or on a value that is no hash
Compare(password, hash) ==
    /\ Len(hash) = 3
    /\ hash[1] = "$2b$10$"
    /\ hash[3] = password[1]

\* ---- responses ----
Resp(status, body) == [status |-> status, body |-> body]

SignupCreated == Resp(201, [message |-> "User created successfully"])
SignupInsertError == Resp(500, [error |-> "Error creating user"])
SignupHashError == Resp(500, [error |-> "Error creating user"])

LoginQueryError_401 == Resp(401, [error |-> "Error during login"])
LoginQueryError == Resp(500, [error |-> "Error during login"])
LoginUnknownEmail == Resp(401, [error |-> "Invalid email or password"])
LoginMismatch_wrong == Resp(401, [error |-> "Wrong password"])
LoginMismatch == Resp(401, [error |-> "Invalid email or password"])

\* `${user.first_name} ${user.last_name}`
UserName(first, last) == <<first, " ", last>>

LoginSuccess(user) ==
    Resp(200, [message |-> "Login successful",
               userName |-> UserName(user.first_name, user.last_name),
               redirectUrl |-> "/homepage"])

AlumniResponse_always201(error, insertId) ==
    Resp(201, [message |-> "Alumni registered successfully", id |-> insertId])
AlumniResponse(error, insertId) ==
    IF error # ""
    THEN Resp(500, [error |-> "Error registering alumni", details |-> error])
    ELSE Resp(201, [message |-> "Alumni registered successfully", id |-> insertId])

PaymentResponse(error, insertId) ==
    IF error # ""
    THEN Resp(500, [error |-> "Error saving payment", details |-> error])
    ELSE Resp(201, [message |-> "Payment saved successfully", id |-> insertId])

\* express' default error handler, reached when the upload middleware calls next(err)
UploadError == Resp(500, [error |-> "Internal Server Error"])

PageResponse(page) == Resp(200, [file |-> page])

\* ---- upload handler ----
\* filename: Date.now() + path.extname(file.originalname), under destination 'uploads/'
FileName(time, ext) == <<time, ext>>
FilePath(time, ext) == <<"uploads/">> \o FileName(time, ext)

\* const photo_path = req.file ? req.file.path : null
PhotoPath_filename(file, path) == IF file # NoFile THEN Tail(path) ELSE Null
PhotoPath(file, path) == IF file # NoFile THEN path ELSE Null

\* ---- persistence ----
\* INSERT appends one row; the generated identifier is the row's position
InsertRow_overwrite(table, row) == <<row>>
InsertRow(table, row) == Append(table, row)

RECURSIVE SelectByEmail(_, _)
\* SELECT * FROM users WHERE email = ?  (rows in table order)
SelectByEmail(table, email) ==
    IF table = <<>> THEN <<>>
    ELSE IF Head(table).email = email
         THEN <<Head(table)>> \o SelectByEmail(Tail(table), email)
         ELSE SelectByEmail(Tail(table), email)

\* values of the signup INSERT: [firstName, lastName, email, hashedPassword]
SignupValues_plain(r, hashedPassword) ==
    [first_name |-> r.firstName, last_name |-> r.lastName,
     email |-> r.email, password |-> r.password]
SignupValues(r, hashedPassword) ==
    [first_name |-> r.firstName, last_name |-> r.lastName,
     email |-> r.email, password |-> hashedPassword]

AlumniValues(r) == [photo_path |-> r.photo_path]

PaymentValues(r) == [card_number |-> "4111", cvv |-> "123"]

\* errors a query can end with on this connection
QueryErrors(conn) ==
    IF conn = "failed" THEN {"ECONNCLOSED"} ELSE {"", "ER_OTHER"}

\* The database outlives the process: users starts empty or with the row an
\* earlier run stored for signup {C, D, a@x.com, other}.
StoredUsers ==
    {<<>>,
     <<[first_name |-> "C", last_name |-> "D", email |-> "a@x.com",
        password |-> Hash(<<"other">>, Salt(0))]>>}

\* ---- requests ----
NewReq(route) ==
    [route |-> route, pc |-> "done",
     firstName |-> "", lastName |-> "", email |-> "", password |-> Missing,
     file |-> NoFile, page |-> "",
     hashedPassword |-> <<>>, uploaded |-> Null, photo_path |-> Null,
     error |-> "", results |-> <<>>, insertId |-> 0,
     resp |-> <<>>, acked |-> {}]

Ids == 1..Len(reqs)

CanArrive == alive /\ listening /\ Len(reqs) < MaxReq

Send(r, response) == [r EXCEPT !.resp = Append(@, response), !.pc = "done"]

Init ==
    /\ db = "connecting"
    /\ listening = FALSE
    /\ alive = TRUE
    /\ uniqueEmail \in BOOLEAN
    /\ now = 0
    /\ reqs = <<>>
    /\ dbQueue = <<>>
    /\ users \in StoredUsers
    /\ users0 = users
    /\ alumni_registration = <<>>
    /\ payments = <<>>
    /\ uploads = {}

\* connection.connect callback without error
Connected ==
    /\ alive /\ db = "connecting"
    /\ db' = "connected"
    /\ UNCHANGED <<listening, alive, uniqueEmail, now, reqs, dbQueue, tables, uploads, users0>>

\* connection.connect callback with error: logged, the process goes on
ConnectFailed ==
    /\ alive /\ db = "connecting"
    /\ db' = "failed"
    /\ UNCHANGED <<listening, alive, uniqueEmail, now, reqs, dbQueue, tables, uploads, users0>>

\* app.listen
Listen ==
    /\ alive /\ ~listening
    /\ listening' = TRUE
    /\ UNCHANGED <<db, alive, uniqueEmail, now, reqs, dbQueue, tables, uploads, users0>>

\* GET /, /signup, /homepage, /alumni-registration
GetPage ==
    /\ CanArrive
    /\ \E page \in Pages :
         reqs' = Append(reqs, Send([NewReq("get") EXCEPT !.page = page], PageResponse(page)))
    /\ UNCHANGED <<db, listening, alive, uniqueEmail, now, dbQueue, tables, uploads, users0>>

\* POST /signup, up to the await of bcrypt.hash
SignupRequest ==
    /\ CanArrive
    /\ \E b \in SignupBodies :
         reqs' = Append(reqs, [NewReq("signup") EXCEPT !.pc = "hash",
                                 !.firstName = b.firstName, !.lastName = b.lastName,
                                 !.email = b.email, !.password = b.password])
    /\ UNCHANGED <<db, listening, alive, uniqueEmail, now, dbQueue, tables, uploads, users0>>

\* bcrypt.hash settles: the INSERT is issued, or the catch block answers 500
SignupHashed(i) ==
    /\ alive /\ reqs[i].route = "signup" /\ reqs[i].pc = "hash"
    /\ IF BcryptRejects(reqs[i].password)
       THEN /\ reqs' = [reqs EXCEPT ![i] = Send(@, SignupHashError)]
            /\ UNCHANGED dbQueue
       ELSE /\ reqs' = [reqs EXCEPT ![i] = [@ EXCEPT !.pc = "query",
                            !.hashedPassword = Hash(reqs[i].password, Salt(i))]]
            /\ dbQueue' = Append(dbQueue, i)
    /\ UNCHANGED <<db, listening, alive, uniqueEmail, now, tables, uploads, users0>>

\* callback of the signup INSERT
SignupCallback(i) ==
    /\ alive /\ reqs[i].route = "signup" /\ reqs[i].pc = "callback"
    /\ reqs' = [reqs EXCEPT ![i] =
                  Send(@, IF reqs[i].error # "" THEN SignupInsertError ELSE SignupCreated)]
    /\ UNCHANGED <<db, listening, alive, uniqueEmail, now, dbQueue, tables, uploads, users0>>

\* the signups answered 201 so far for these credentials (history, read by no handler)
Acked(e, p) ==
    {UserName(reqs[j].firstName, reqs[j].lastName) : j \in
        {k \in Ids : /\ reqs[k].route = "signup" /\ reqs[k].pc = "done"
                      /\ reqs[k].resp = <<SignupCreated>>
                      /\ reqs[k].email = e /\ reqs[k].password = p}}

\* POST /login: the SELECT is issued
LoginRequest ==
    /\ CanArrive
    /\ \E b \in LoginBodies :
         reqs' = Append(reqs, [NewReq("login") EXCEPT !.pc = "query", !.email = b.email,
                                 !.password = b.password,
                                 !.acked = Acked(b.email, b.password)])
    /\ dbQueue' = Append(dbQueue, Len(reqs) + 1)
    /\ UNCHANGED <<db, listening, alive, uniqueEmail, now, tables, uploads, users0>>

\* callback of the login SELECT, up to the await of bcrypt.compare
LoginCallback(i) ==
    /\ alive /\ reqs[i].route = "login" /\ reqs[i].pc = "callback"
    /\ reqs' = [reqs EXCEPT ![i] =
                  IF reqs[i].error # "" THEN Send(@, LoginQueryError)
                  ELSE IF Len(reqs[i].results) = 0 THEN Send(@, LoginUnknownEmail)
                  ELSE [@ EXCEPT !.pc = "compare"]]
    /\ UNCHANGED <<db, listening, alive, uniqueEmail, now, dbQueue, tables, uploads, users0>>

\* bcrypt.compare settles.  A rejection leaves the async callback with nothing
\* to catch it: no response is sent, and the unhandled rejection either only
\* warns or ends the process, depending on the runtime.
LoginCompared(i) ==
    /\ alive /\ reqs[i].route = "login" /\ reqs[i].pc = "compare"
    /\ LET user == reqs[i].results[1] IN
       IF BcryptRejects(reqs[i].password)
       THEN /\ reqs' = [reqs EXCEPT ![i] = [@ EXCEPT !.pc = "rejected"]]
            /\ alive' \in BOOLEAN
       ELSE /\ reqs' = [reqs EXCEPT ![i] =
                          Send(@, IF Compare(reqs[i].password, user.password)
                                  THEN LoginSuccess(user) ELSE LoginMismatch)]
            /\ UNCHANGED alive
    /\ UNCHANGED <<db, listening, uniqueEmail, now, dbQueue, tables, uploads, users0>>

\* POST /alumni-registration arrives; upload.single('photo') runs first
AlumniRequest ==
    /\ CanArrive
    /\ \E f \in Files :
         reqs' = Append(reqs, [NewReq("alumni") EXCEPT !.pc = "upload", !.file = f])
    /\ UNCHANGED <<db, listening, alive, uniqueEmail, now, dbQueue, tables, uploads, users0>>

\* The upload middleware has stored the file (if any) under the name made from
\* Date.now(), a clock that never runs backwards, and the handler issues the INSERT.
AlumniUploaded(i) ==
    /\ alive /\ reqs[i].route = "alumni" /\ reqs[i].pc = "upload"
    /\ LET file == reqs[i].file IN
       IF file = NoFile
       THEN /\ reqs' = [reqs EXCEPT ![i] = [@ EXCEPT !.pc = "query",
                                              !.photo_path = PhotoPath(file, Null)]]
            /\ UNCHANGED <<now, uploads>>
       ELSE \E time \in now..MaxClock :
            /\ now' = time
            /\ reqs' = [reqs EXCEPT ![i] = [@ EXCEPT !.pc = "query",
                          !.uploaded = FilePath(time, file),
                          !.photo_path = PhotoPath(file, FilePath(time, file))]]
            /\ uploads' = {u \in uploads : u.name # FileName(time, file)}
                             \cup {[name |-> FileName(time, file), owner |-> i]}
    /\ dbQueue' = Append(dbQueue, i)
    /\ UNCHANGED <<db, listening, alive, uniqueEmail, tables, users0>>

\* the disk write fails: the middleware passes the error on and the handler never runs
AlumniUploadFailed(i) ==
    /\ alive /\ reqs[i].route = "alumni" /\ reqs[i].pc = "upload"
    /\ reqs[i].file # NoFile
    /\ reqs' = [reqs EXCEPT ![i] = Send(@, UploadError)]
    /\ UNCHANGED <<db, listening, alive, uniqueEmail, now, dbQueue, tables, uploads, users0>>

\* callback of the alumni INSERT
AlumniCallback(i) ==
    /\ alive /\ reqs[i].route = "alumni" /\ reqs[i].pc = "callback"
    /\ reqs' = [reqs EXCEPT ![i] = Send(@, AlumniResponse(reqs[i].error, reqs[i].insertId))]
    /\ UNCHANGED <<db, listening, alive, uniqueEmail, now, dbQueue, tables, uploads, users0>>

\* POST /save-payment: the INSERT is issued
PaymentRequest ==
    /\ CanArrive
    /\ reqs' = Append(reqs, [NewReq("payment") EXCEPT !.pc = "query"])
    /\ dbQueue' = Append(dbQueue, Len(reqs) + 1)
    /\ UNCHANGED <<db, listening, alive, uniqueEmail, now, tables, uploads, users0>>

\* callback of the payment INSERT
PaymentCallback(i) ==
    /\ alive /\ reqs[i].route = "payment" /\ reqs[i].pc = "callback"
    /\ reqs' = [reqs EXCEPT ![i] = Send(@, PaymentResponse(reqs[i].error, reqs[i].insertId))]
    /\ UNCHANGED <<db, listening, alive, uniqueEmail, now, dbQueue, tables, uploads, users0>>

\* The connection executes the oldest queued command (connection.query); commands
\* issued before the handshake has settled wait for it.
DbExecute ==
    /\ alive /\ db # "connecting" /\ dbQueue # <<>>
    /\ LET i == Head(dbQueue)
           r == reqs[i]
           duplicate == /\ r.route = "signup" /\ uniqueEmail
                        /\ SelectByEmail(users, r.email) # <<>>
       IN \E err \in (IF duplicate THEN {"ER_DUP_ENTRY"} ELSE QueryErrors(db)) :
            /\ dbQueue' = Tail(dbQueue)
            /\ IF err # ""
               THEN /\ reqs' = [reqs EXCEPT ![i] = [@ EXCEPT !.pc = "callback", !.error = err]]
                    /\ UNCHANGED tables
               ELSE CASE r.route = "signup" ->
                           /\ users' = InsertRow(users, SignupValues(r, r.hashedPassword))
                           /\ reqs' = [reqs EXCEPT ![i] = [@ EXCEPT !.pc = "callback",
                                                             !.insertId = Len(users')]]
                           /\ UNCHANGED <<alumni_registration, payments>>
                      [] r.route = "login" ->
                           /\ reqs' = [reqs EXCEPT ![i] = [@ EXCEPT !.pc = "callback",
                                         !.results = SelectByEmail(users, r.email)]]
                           /\ UNCHANGED tables
                      [] r.route = "alumni" ->
                           /\ alumni_registration' = InsertRow(alumni_registration, AlumniValues(r))
                           /\ reqs' = [reqs EXCEPT ![i] = [@ EXCEPT !.pc = "callback",
                                                             !.insertId = Len(alumni_registration')]]
                           /\ UNCHANGED <<users, payments>>
                      [] r.route = "payment" ->
                           /\ payments' = InsertRow(payments, PaymentValues(r))
                           /\ reqs' = [reqs EXCEPT ![i] = [@ EXCEPT !.pc = "callback",
                                                             !.insertId = Len(payments')]]
                           /\ UNCHANGED <<users, alumni_registration>>
    /\ UNCHANGED <<db, listening, alive, uniqueEmail, now, uploads, users0>>

Next ==
    \/ Connected
    \/ ConnectFailed
    \/ Listen
    \/ GetPage
    \/ SignupRequest
    \/ \E i \in Ids : SignupHashed(i)
    \/ \E i \in Ids : SignupCallback(i)
    \/ LoginRequest
    \/ \E i \in Ids : LoginCallback(i)
    \/ \E i \in Ids : LoginCompared(i)
    \/ AlumniRequest
    \/ \E i \in Ids : AlumniUploaded(i)
    \/ \E i \in Ids : AlumniUploadFailed(i)
    \/ \E i \in Ids : AlumniCallback(i)
    \/ PaymentRequest
    \/ \E i \in Ids : PaymentCallback(i)
    \/ DbExecute

Spec == Init /\ [][Next]_vars

\* ---- vocabulary of the properties ----
Posts == {i \in Ids : reqs[i].route # "get"}
Of(route) == {i \in Ids : reqs[i].route = route}
Answered(i) == reqs[i].pc = "done"
Finished(i) == reqs[i].pc \in {"done", "rejected"}
Stored(i) == reqs[i].insertId # 0

IsPrefix(s, t) == Len(s) <= Len(t) /\ SubSeq(t, 1, Len(s)) = s

InvalidCredentials == Resp(401, [error |-> "Invalid email or password"])

\* the lookup succeeded and found no row for the email
UnknownEmailLogin(i) ==
    /\ reqs[i].route = "login" /\ Finished(i)
    /\ reqs[i].error = "" /\ reqs[i].results = <<>>

\* the lookup found the email and the submitted password does not verify
WrongPasswordLogin(i) ==
    /\ reqs[i].route = "login" /\ Finished(i)
    /\ reqs[i].error = "" /\ reqs[i].results # <<>>
    /\ reqs[i].password # Missing
    /\ ~Compare(reqs[i].password, reqs[i].results[1].password)

\* C1: a login naming an unknown email and a login naming a known email with a
\* password that does not verify get the same response, 401 with the error
\* 'Invalid email or password'.
C1_LoginIndistinguishable ==
    \A i \in Ids, j \in Ids :
        UnknownEmailLogin(i) /\ WrongPasswordLogin(j) =>
            /\ reqs[i].resp = reqs[j].resp
            /\ reqs[i].resp = <<InvalidCredentials>>

C1_Witness ==
    \E i \in Ids, j \in Ids :
        UnknownEmailLogin(i) /\ WrongPasswordLogin(j) /\ Answered(i) /\ Answered(j)

\* C2: a login with the credentials of a signup that was answered 201 before it,
\* and whose lookup query succeeded, is answered 200 with userName
\* firstName + ' ' + lastName of that signup and redirectUrl '/homepage'.
C2_SignupThenLogin ==
    \A i \in Of("login") :
        Finished(i) /\ reqs[i].error = "" =>
            \A name \in reqs[i].acked :
                reqs[i].resp = <<Resp(200, [message |-> "Login successful",
                                              userName |-> name,
                                              redirectUrl |-> "/homepage"])>>

\* C3: the users table holds at most one row per email, and a signup refused
\* because its email is already stored gets a response other than the generic
\* 500 {error: 'Error creating user'}.
C3_NoDuplicateAccounts ==
    /\ \A k \in 1..Len(users), l \in 1..Len(users) :
           users[k].email = users[l].email => k = l
    /\ \A i \in Of("signup") :
           Answered(i) /\ reqs[i].error = "ER_DUP_ENTRY" =>
               reqs[i].resp # <<Resp(500, [error |-> "Error creating user"])>>

\* C4: every row added to users was stored by a signup, holds a bcrypt hash of
\* that signup's plaintext and never the plaintext, and the plaintext verifies
\* against it.
C4_PasswordsAreHashes ==
    /\ \A k \in (Len(users0) + 1)..Len(users) : \E i \in Of("signup") : reqs[i].insertId = k
    /\ \A i \in Of("signup") :
           Stored(i) =>
               LET stored == users[reqs[i].insertId].password IN
               /\ stored # reqs[i].password
               /\ \E call \in Ids : stored = Hash(reqs[i].password, Salt(call))
               /\ Compare(reqs[i].password, stored)

C4_Witness ==
    \E i \in Of("signup") : Stored(i) /\ Answered(i)

\* C5: an alumni registration without a photo whose insert succeeded added exactly
\* one row, with photo_path null, and is answered 201 with that row's
\* identifier; with a photo, photo_path is the path the upload handler assigned.
C5_AlumniPhotoPath ==
    /\ Len(alumni_registration) = Cardinality({i \in Of("alumni") : Stored(i)})
    /\ \A i \in Of("alumni") : \A j \in Of("alumni") :
           Stored(i) /\ Stored(j) /\ reqs[i].insertId = reqs[j].insertId => i = j
    /\ \A i \in Of("alumni") :
           Stored(i) =>
               LET row == alumni_registration[reqs[i].insertId] IN
               /\ reqs[i].file = NoFile => row.photo_path = Null
               /\ reqs[i].file # NoFile =>
                      /\ row.photo_path = reqs[i].uploaded
                      /\ row.photo_path = <<"uploads/">> \o FileName(row.photo_path[2], reqs[i].file)
               /\ Answered(i) =>
                      reqs[i].resp = <<Resp(201, [message |-> "Alumni registered successfully",
                                                   id |-> reqs[i].insertId])>>

C5_Witness ==
    \E i \in Of("alumni"), j \in Of("alumni") :
        /\ reqs[i].file = NoFile /\ Stored(i) /\ Answered(i)
        /\ reqs[j].file # NoFile /\ Stored(j) /\ Answered(j)

\* C6: every POST request whose handler has finished has received exactly one
\* response, also when hashing, comparing or the query failed.
C6_EveryRequestAnswered ==
    \A i \in Posts :
        /\ Len(reqs[i].resp) <= 1
        /\ Finished(i) => Len(reqs[i].resp) = 1

\* C7: after a failed connect the server listens and takes requests, every
\* answered POST is answered 500, no login is answered 200 or 401, no row is
\* stored.
C7_ConnectFailureNotFatal ==
    db = "failed" =>
        /\ alive
        /\ users = users0 /\ alumni_registration = <<>> /\ payments = <<>>
        /\ \A i \in Posts :
               /\ ~Stored(i)
               /\ reqs[i].pc # "rejected"
               /\ Answered(i) => reqs[i].resp[1].status = 500

C7_Witness ==
    /\ db = "failed" /\ listening
    /\ \E i \in Of("signup"), j \in Of("login") :
           /\ reqs[i].password # Missing /\ Answered(i)
           /\ Answered(j)

\* the request a step works on: the one it receives or the one it moves on
Touched(i) == i \notin DOMAIN reqs \/ reqs[i] # reqs'[i]

\* C8: no step modifies or removes a stored row, steps of POST /login and of the
\* GET routes leave the three tables unchanged, and a GET is answered with its
\* page whether or not a login succeeded before it.
C8_AppendOnlyStateless ==
    [][/\ IsPrefix(users, users')
       /\ IsPrefix(alumni_registration, alumni_registration')
       /\ IsPrefix(payments, payments')
       /\ \A i \in DOMAIN reqs' :
              Touched(i) /\ reqs'[i].route \in {"login", "get"} => UNCHANGED tables
       /\ \A i \in DOMAIN reqs' :
              reqs'[i].route = "get" => reqs'[i].resp = <<Resp(200, [file |-> reqs'[i].page])>>
      ]_vars

C8_Witness ==
    \E g \in Of("get"), l \in Of("login") :
        /\ g < l /\ reqs[g].page = "homepage.html"
        /\ Answered(l) /\ reqs[l].resp[1].status = 200
        /\ Len(users) > 0

Count(route, status) ==
    Cardinality({i \in Of(route) : Answered(i) /\ reqs[i].resp[1].status = status})
PendingOk(route) ==
    Cardinality({i \in Of(route) : reqs[i].pc = "callback" /\ reqs[i].error = ""})
InQueue(i) == \E k \in 1..Len(dbQueue) : dbQueue[k] = i

\* C9: each table has gained as many rows as its route sent 201 responses plus
\* the successful inserts whose callback has not run; a 201 belongs to a stored row
\* and a 500 to none; a signup whose hashing failed never issues an insert.
C9_ResponsesMatchStorage ==
    /\ Len(users) = Len(users0) + Count("signup", 201) + PendingOk("signup")
    /\ Len(alumni_registration) = Count("alumni", 201) + PendingOk("alumni")
    /\ Len(payments) = Count("payment", 201) + PendingOk("payment")
    /\ \A i \in Of("signup") \cup Of("alumni") \cup Of("payment") :
           Answered(i) =>
               /\ reqs[i].resp[1].status \in {201, 500}
               /\ reqs[i].resp[1].status = 201 <=> Stored(i)
    /\ \A i \in Of("signup") :
           BcryptRejects(reqs[i].password) =>
               /\ reqs[i].pc \in {"hash", "done"}
               /\ ~InQueue(i) /\ ~Stored(i) /\ reqs[i].error = ""

C9_Witness ==
    \E i \in Of("signup"), j \in Of("signup") :
        /\ reqs[i].pc = "callback" /\ reqs[i].error = ""
        /\ BcryptRejects(reqs[j].password) /\ Answered(j)

\* C10: any two alumni registrations that each carried a photo and were stored
\* have distinct stored photo_path values.
C10_PhotoPathsDistinct ==
    \A i \in Of("alumni"), j \in Of("alumni") :
        /\ i # j
        /\ reqs[i].file # NoFile /\ Stored(i)
        /\ reqs[j].file # NoFile /\ Stored(j)
        => alumni_registration[reqs[i].insertId].photo_path
             # alumni_registration[reqs[j].insertId].photo_path
====
